---------------------------- MODULE Spec2Model ----------------------------
(***************************************************************************)
(* Model of the bb host-side driver (src/src/lib.rs, commands.rs,          *)
(* player_comms.rs, usb.rs).                                               *)
(*                                                                         *)
(* The driver is sequential, so it is modelled in three tiers, each with   *)
(* its own specification over the same variables:                          *)
(*                                                                         *)
(*   SpecCodec  the pure piecemeal encode / decode functions               *)
(*   SpecLink   the framing codec of player_comms.rs, one bulk transfer    *)
(*              per step, against an arbitrary transport                   *)
(*   Spec       the session state machine of lib.rs and the command layer  *)
(*              of commands.rs, one framing-codec call per step            *)
(***************************************************************************)
EXTENDS Integers, Sequences, FiniteSets, TLC

VARIABLES
    \* ---- codec tier
    cpc,            \* "input" | "encoded" | "decoded", or "received" |
                    \* "received_decoded" for a stream that came from the device
    payload,        \* the bytes handed to encode_piecemeal_data, or to the device
    encoded,        \* its return value, or the stream the device delivered
    expected,       \* the expected_len decode_piecemeal_data is called with
    decoded         \* the Result of decode_piecemeal_data

codecVars == <<cpc, payload, encoded, expected, decoded>>

VARIABLES
    \* ---- link tier (player_comms.rs), one call of the framing codec
    lpc,            \* the function about to make a bulk transfer, "idle", "done"
    lcall,          \* the call: [fn, expected_len, command, arg]
    lret,           \* its Result once lpc = "done"
    data_length,    \* receive_reply: the length the header declared, -1 before
    buf,            \* receive_data: the bytes buffered so far
    transferred,    \* receive_data: the length of the last packet
    wire,           \* the device: the body bytes it has yet to deliver
    polls,          \* headers discarded so far by the polling loop in progress
    xlog            \* the bulk transfers of the call, in order

linkVars == <<lpc, lcall, lret, data_length, buf, transferred, wire, polls, xlog>>

VARIABLES
    \* ---- session and command tier (lib.rs, commands.rs)
    is_initialised, \* BBPlayer::is_initialised
    pc,             \* the command-layer function about to make its next call,
                    \* "idle" between public operations
    op,             \* the public operation called last: [name, num, data, spare,
                    \* was_init, before]
    result,         \* its Result once it has returned
    attempt,        \* read_block_spare / write_block_spare: the attempt in progress
    block_buf,      \* get_block: the chunks received so far
    dump,           \* dump_nand_and_spare: [num_blocks, block_num, nand, spare]
                    \* with block_num the blocks read so far, and reads, the
                    \* indices read_block_spare was called with
    clog,           \* the calls made by the operation, or by the current attempt
                    \* of a block read or write, in order
    dev,            \* the device: [mode, nand, queue, target, acc]
    prev            \* for a ReadSingleBlock: the operation before it, when that
                    \* was a successful WriteSingleBlock of the same block to a
                    \* storing device

cmdVars == <<is_initialised, pc, op, result, attempt, block_buf, dump, clog, dev, prev>>

vars == <<codecVars, linkVars, cmdVars>>

-----------------------------------------------------------------------------
(* Bounds of the model *)

\* longest payload of the codec tier
MaxLen == 4

\* headers one polling loop may discard before the device answers or fails
MaxPolls == 2

\* blocks of the device; block indices are 0 .. MaxBlocks - 1
MaxBlocks == 2

-----------------------------------------------------------------------------
(* Result<T, E> values.  One shape for every tier:                         *)
(*   tag  "Ok" | "Err" | "Panic"                                           *)
(*   err  the error's name (Err) or the panic's message (Panic)            *)
(*   code the number an error carries (block index, return code)           *)
(*   val  the Ok value, a sequence                                         *)

Ok(v) == [tag |-> "Ok", err |-> "", code |-> 0, val |-> v]

Err(e) == [tag |-> "Err", err |-> e, code |-> 0, val |-> <<>>]

ErrC(e, c) == [tag |-> "Err", err |-> e, code |-> c, val |-> <<>>]

Panic(m) == [tag |-> "Panic", err |-> m, code |-> 0, val |-> <<>>]

IsOk(r) == r.tag = "Ok"

IsErr(r) == r.tag = "Err"

IsPanic(r) == r.tag = "Panic"

\* the value of a variable that holds no result yet
NoResult == [tag |-> "None", err |-> "", code |-> 0, val |-> <<>>]

Min(a, b) == IF a < b THEN a ELSE b

-----------------------------------------------------------------------------
(* TransferCommand and the constants of impl BBPlayer (player_comms.rs) *)

Ready == 21                     \* 0x15

PiecemealChunkRecv == 28        \* 0x1C

PiecemealChunkSend == 64        \* 0x40

Ack == 68                       \* 0x44

SendChunk == 99                 \* 0x63

READY_SIGNAL == <<Ready, 0, 0, 0>>

PIECEMEAL_DATA_CHUNK_SIZE == 3

PACKET_SIZE == 128              \* 0x80

-----------------------------------------------------------------------------
(* encode_piecemeal_data: every group of at most 3 bytes is sent after a   *)
(* tag byte PiecemealChunkSend + (group length), in u8 arithmetic.         *)

RECURSIVE encode_piecemeal_data(_)
encode_piecemeal_data(data) ==
    IF data = <<>> THEN <<>>
    ELSE LET n     == Min(PIECEMEAL_DATA_CHUNK_SIZE, Len(data))
             chunk == SubSeq(data, 1, n)
         IN  <<(PiecemealChunkSend + n) % 256>> \o chunk
                \o encode_piecemeal_data(SubSeq(data, n + 1, Len(data)))

(* decode_piecemeal_data.  decode_group is the inner `for _ in 0x1C..tu`   *)
(* loop: it pushes `left` bytes read from position i, and is an            *)
(* InvalidParam error when the iterator ends first.  decode_loop is the    *)
(* `while buf.len() < expected_len && let Some(&tu) = it.next()` loop      *)
(* followed by the assert! on the produced length.                         *)

\* a decode_group that takes what is left of the input when the iterator
\* ends inside a group
decode_group_Lenient(data, i, left, acc) ==
    LET n == Min(left, Len(data) - i + 1)
    IN  [ok |-> TRUE, i |-> i + n, acc |-> acc \o SubSeq(data, i, i + n - 1)]

\* a decoder that accepts the tags encode_piecemeal_data writes (0x41..=0x43)
IsRecvTag_SendBase(tu) == tu >= PiecemealChunkSend + 1 /\ tu <= PiecemealChunkSend + 3

\* the tags the match arm 0x1D..=0x1F accepts
IsRecvTag(tu) == tu >= PiecemealChunkRecv + 1 /\ tu <= PiecemealChunkRecv + 3

RECURSIVE decode_group(_, _, _, _)
decode_group(data, i, left, acc) ==
    IF left = 0 THEN [ok |-> TRUE, i |-> i, acc |-> acc]
    ELSE IF i > Len(data) THEN [ok |-> FALSE, i |-> i, acc |-> acc]
    ELSE decode_group(data, i + 1, left - 1, Append(acc, data[i]))

RECURSIVE decode_loop(_, _, _, _)
decode_loop(data, expected_len, i, acc) ==
    IF Len(acc) < expected_len /\ i <= Len(data)
    THEN LET tu == data[i]
         IN  IF IsRecvTag(tu)
             THEN LET g == decode_group(data, i + 1, tu - PiecemealChunkRecv, acc)
                  IN  IF g.ok THEN decode_loop(data, expected_len, g.i, g.acc)
                      ELSE Err("InvalidParam")
             ELSE Err("Io")
    ELSE IF Len(acc) = expected_len THEN Ok(acc)
    ELSE Panic("Data length does not match expected")

decode_piecemeal_data(data, expected_len) ==
    decode_loop(data, expected_len, 1, <<>>)

-----------------------------------------------------------------------------
(* The values the variables of a tier hold under another tier's            *)
(* specification.                                                          *)

NoCall == [fn |-> "none", expected_len |-> 0, command |-> 0, arg |-> 0]

LinkOff ==
    /\ lpc = "off"
    /\ lcall = NoCall
    /\ lret = NoResult
    /\ data_length = -1
    /\ buf = <<>>
    /\ transferred = 0
    /\ wire = <<>>
    /\ polls = 0
    /\ xlog = <<>>

NoOp == [name |-> "none", num |-> 0, data |-> <<>>, spare |-> <<>>,
         was_init |-> FALSE, before |-> <<>>]

NoDump == [num_blocks |-> 0, block_num |-> 0, nand |-> <<>>, spare |-> <<>>,
           reads |-> <<>>]

NoDev == [mode |-> "off", nand |-> <<>>, queue |-> <<>>, target |-> -1, acc |-> <<>>]

CmdOff ==
    /\ is_initialised = FALSE
    /\ pc = "off"
    /\ op = NoOp
    /\ result = NoResult
    /\ attempt = 0
    /\ block_buf = <<>>
    /\ dump = NoDump
    /\ clog = <<>>
    /\ dev = NoDev
    /\ prev = NoOp

-----------------------------------------------------------------------------
(* Codec tier: a payload is encoded, then the encoding is decoded with the *)
(* payload's length as the expected length.                                *)

\* payload bytes: two that are also tag values, and 0xFF
PayloadBytes == {29, 65, 255}

RECURSIVE SeqsUpTo(_, _)
SeqsUpTo(S, n) ==
    IF n = 0 THEN {<<>>}
    ELSE LET shorter == SeqsUpTo(S, n - 1)
         IN  shorter \cup {Append(s, b) : s \in {t \in shorter : Len(t) = n - 1}, b \in S}

CodecOff ==
    /\ cpc = "off"
    /\ payload = <<>>
    /\ encoded = <<>>
    /\ expected = -1
    /\ decoded = NoResult

CodecInit ==
    /\ cpc = "input"
    /\ payload \in SeqsUpTo(PayloadBytes, MaxLen)
    /\ encoded = <<>>
    /\ expected = -1
    /\ decoded = NoResult
    /\ LinkOff
    /\ CmdOff

Encode ==
    /\ cpc = "input"
    /\ encoded' = encode_piecemeal_data(payload)
    /\ expected' = Len(payload)
    /\ cpc' = "encoded"
    /\ UNCHANGED <<payload, decoded, linkVars, cmdVars>>

Decode ==
    /\ cpc = "encoded"
    /\ decoded' = decode_piecemeal_data(encoded, expected)
    /\ cpc' = "decoded"
    /\ UNCHANGED <<payload, encoded, expected, linkVars, cmdVars>>

\* the device's piecemeal encoding: groups of at most 3 bytes behind a tag
\* PiecemealChunkRecv + (group length)
RECURSIVE DeviceEncode(_)
DeviceEncode(data) ==
    IF data = <<>> THEN <<>>
    ELSE LET n == Min(3, Len(data))
         IN  <<PiecemealChunkRecv + n>> \o SubSeq(data, 1, n)
                \o DeviceEncode(SubSeq(data, n + 1, Len(data)))

\* one-byte groups: every byte behind its own tag PiecemealChunkRecv + 1
RECURSIVE DeviceEncodeSingly(_)
DeviceEncodeSingly(data) ==
    IF data = <<>> THEN <<>>
    ELSE <<PiecemealChunkRecv + 1, Head(data)>> \o DeviceEncodeSingly(Tail(data))

\* the streams the device may deliver for a payload: its encoding in groups
\* of 3 or of 1, that encoding without its last byte or its last two, with a
\* byte that is no tag in front or behind, or with its first tag turned
\* into a send tag
Streams(data) ==
    LET good == DeviceEncode(data)
    IN  {good,
         DeviceEncodeSingly(data),
         SubSeq(good, 1, Len(good) - 1),
         SubSeq(good, 1, Len(good) - 2),
         <<0>> \o good,
         good \o <<PiecemealChunkSend + 1>>,
         good \o <<PiecemealChunkRecv>>,
         IF good = <<>> THEN <<>> ELSE <<good[1] + 36>> \o Tail(good)}

\* the device delivers a stream and the caller names an expected length
Receive ==
    /\ cpc = "input"
    /\ encoded' \in Streams(payload)
    /\ expected' \in 0 .. MaxLen + 1
    /\ cpc' = "received"
    /\ UNCHANGED <<payload, decoded, linkVars, cmdVars>>

DecodeReceived ==
    /\ cpc = "received"
    /\ decoded' = decode_piecemeal_data(encoded, expected)
    /\ cpc' = "received_decoded"
    /\ UNCHANGED <<payload, encoded, expected, linkVars, cmdVars>>

CodecNext == Encode \/ Decode \/ Receive \/ DecodeReceived

SpecCodec == CodecInit /\ [][CodecNext]_vars

(* C7 as stated: for every payload p of length N >= 0,                     *)
(* decode_piecemeal_data(encode_piecemeal_data(p), N) is Ok(p).            *)
C7_RoundTrip ==
    cpc = "decoded" => decoded = Ok(payload)

(* C7, amended: decode_piecemeal_data(encode_piecemeal_data(p), N) is      *)
(* Ok(p) only for the empty payload; for every N >= 1 it is the framing    *)
(* error Io, because the first byte of the encoding is a send tag          *)
(* (0x41..0x43) and the decoder accepts only the receive tags 0x1D..0x1F.  *)
C7_RoundTripOnlyEmpty ==
    cpc = "decoded" =>
        /\ payload = <<>> => decoded = Ok(<<>>)
        /\ payload # <<>> => decoded = Err("Io")
        /\ payload # <<>> => encoded[1] = PiecemealChunkSend + Min(3, Len(payload))

\* a payload of more than one group has been encoded and decoded
C7_Witness ==
    /\ cpc = "decoded"
    /\ Len(payload) > PIECEMEAL_DATA_CHUNK_SIZE
    /\ Len(encoded) = Len(payload) + 2
    /\ decoded = Err("Io")

\* what the walk over the tagged groups of `data` meets first: "enough"
\* when L bytes or more have been produced, "exhausted" when the input ends
\* between two groups, "tag" at a tag byte outside 0x1D..0x1F, "cut" when the
\* input ends inside a group; `out` holds the bytes of the whole groups
RECURSIVE Groups(_, _, _, _)
Groups(data, L, i, out) ==
    IF Len(out) >= L THEN [end |-> "enough", out |-> out]
    ELSE IF i > Len(data) THEN [end |-> "exhausted", out |-> out]
    ELSE IF data[i] \notin 29 .. 31 THEN [end |-> "tag", out |-> out]
    ELSE LET n == data[i] - 28
         IN  IF i + n > Len(data) THEN [end |-> "cut", out |-> out]
             ELSE Groups(data, L, i + n + 1, out \o SubSeq(data, i + 1, i + n))

\* what C18 holds of every input: success has exactly L bytes, those of the
\* groups consumed, the rest of the input being ignored; a tag outside
\* 0x1D..0x1F met before that is the framing error Io; input that ends
\* between two groups before L bytes were produced is fatal
DecodeCases(w) ==
    /\ IsOk(decoded) => Len(decoded.val) = expected
    /\ w.end = "enough" /\ Len(w.out) = expected => decoded = Ok(w.out)
    /\ w.end = "tag" => decoded = Err("Io")
    /\ w.end = "exhausted" => IsPanic(decoded)

(* C18 as stated: decode_piecemeal_data(data, L) succeeds only with        *)
(* exactly L bytes, stops once L bytes are produced, answers a tag outside *)
(* 0x1D..0x1F with a framing error, and is a fatal length-mismatch         *)
(* violation whenever the input is exhausted before L bytes were produced. *)
C18_Decode ==
    cpc = "received_decoded" =>
        LET w == Groups(encoded, expected, 1, <<>>)
        IN  /\ DecodeCases(w)
            /\ w.end = "cut" => IsPanic(decoded)

(* C18 amended: as stated, except that input exhausted inside a group (the *)
(* tag announces more bytes than are left) is the error InvalidParam, not  *)
(* a fatal violation; input exhausted between two groups is fatal, and so  *)
(* is a last group that carries the output past L bytes.                   *)
C18_DecodeCutGroup ==
    cpc = "received_decoded" =>
        LET w == Groups(encoded, expected, 1, <<>>)
        IN  /\ DecodeCases(w)
            /\ w.end = "cut" => decoded = Err("InvalidParam")
            /\ w.end = "enough" /\ Len(w.out) > expected => IsPanic(decoded)

\* a stream that ends inside its second group was decoded
C18_Witness ==
    /\ cpc = "received_decoded"
    /\ Len(payload) = 4
    /\ encoded = SubSeq(DeviceEncode(payload), 1, 5)
    /\ expected = 4
    /\ decoded = Err("InvalidParam")

-----------------------------------------------------------------------------
(* Transport (usb.rs).  The device and the bus are the environment: a bulk *)
(* receive of `length` bytes returns at most `length` bytes or fails, a    *)
(* bulk send succeeds or fails.                                            *)

\* rusb::Error values a timed bulk transfer ends with
TransportErrors == {"Timeout", "Pipe"}

\* bulk_transfer_receive(length): the device offers one of `offers`
bulk_transfer_receive(length, offers) ==
    {Err(e) : e \in TransportErrors}
        \cup {Ok(d) : d \in {o \in offers : Len(o) <= length}}

\* bulk_transfer_send(data): the number of bytes written is never read
bulk_transfer_send(data) ==
    {Err(e) : e \in TransportErrors} \cup {Ok(<<Len(data)>>)}

\* one entry of xlog: the function that made the transfer, its direction,
\* the length asked for (receive) or offered (send), the bytes moved, and
\* the transport error, "" when there was none
Xfer(fn, dir, want, data, r) ==
    [fn |-> fn, dir |-> dir, want |-> want, data |-> data,
     err |-> IF IsErr(r) THEN r.err ELSE ""]

-----------------------------------------------------------------------------
(* Link tier: player_comms.rs *)

\* u32::to_be_bytes
to_be_bytes(x) ==
    <<(x \div 16777216) % 256, (x \div 65536) % 256, (x \div 256) % 256, x % 256>>

\* a length read from all 4 bytes of the header, the tag among them
low24_Unmasked(data) == data[1] * 16777216 + data[2] * 65536 + data[3] * 256 + data[4]

\* num_from_arr::<u32, _>(&data) & 0x00FFFFFF, data of 4 bytes
low24(data) == data[2] * 65536 + data[3] * 256 + data[4]

\* the tag of a reply length header (the literal 0x1B of receive_data_length)
LengthTag == 27

LenHeader(n) == <<LengthTag>> \o SubSeq(to_be_bytes(n), 2, 4)

\* the body lengths the device declares: none, the small ones, lengths whose
\* inflated body fills one packet or more, and one past the largest
\* expected_len
DeclaredLens == (0 .. 9) \cup {95, 96, 100, 101}

\* what the device may answer to a 4-byte read
HeaderOffers ==
    {READY_SIGNAL, <<22, 0, 0, 0>>, <<Ready, 0, 0, 1>>, <<>>, <<Ready, 0, 0>>,
     <<28, 0, 0, 1>>, <<LengthTag, 0, 0>>}
        \cup {LenHeader(n) : n \in DeclaredLens}

\* the payload a well-behaved device sends for a declared length n
RECURSIVE Counting(_)
Counting(n) == IF n = 0 THEN <<>> ELSE Append(Counting(n - 1), n)

\* the byte streams the device may deliver as the body of a reply that
\* declared n bytes: the encoding of n bytes, that encoding cut short,
\* followed by a stray byte, with a send tag in front, one full group too
\* many, or nothing
Bodies(n) ==
    LET good == DeviceEncode(Counting(n))
    IN  {good,
         SubSeq(good, 1, Len(good) - 1),
         SubSeq(good, 1, Min(Len(good), 4)),
         good \o <<0>>,
         <<PiecemealChunkSend + 1>> \o good,
         DeviceEncode(Counting(n + 3)),
         <<>>}

\* the lengths of the packet the device delivers to a read of `want` bytes
\* when it still holds `have`: all it can, or a short packet
PacketLens(want, have) == {Min(want, have), Min(Min(want, have), 3)}

\* the capacity receive_data reserves for the inflated body
capacity(expected_len) ==
    expected_len + (expected_len \div 3) + ((3 - (expected_len % 3)) % 3) + 1

\* a receive_data that reads until a packet comes back empty
more_packets_UntilEmpty(t) == t > 0

\* receive_data: `while transferred == Self::PACKET_SIZE`
more_packets(t) == t = PACKET_SIZE

\* an is_ready that compares only the first byte with TransferCommand::Ready
is_ready_FirstByte(r) ==
    IF IsErr(r) THEN r
    ELSE IF Len(r.val) # 4 THEN Err("Io")
    ELSE Ok(<<r.val[1] = Ready>>)

\* is_ready, given the Result of its bulk_transfer_receive(4): Ok(<<b>>)
is_ready(r) ==
    IF IsErr(r) THEN r
    ELSE IF Len(r.val) # 4 THEN Err("Io")
    ELSE Ok(<<r.val = READY_SIGNAL>>)

\* a receive_reply that rejects only the over-length reply
length_rejected_OverOnly(len, expected_len) == len > expected_len

\* the test of receive_reply on the declared length
length_rejected(len, expected_len) == len = 0 \/ len > expected_len

\* the expected_len arguments receive_reply is called with
ExpectedLens == {2, 6, 8, 100}

\* the (command, arg) pairs send_command is called with
CommandArgs == {<<17, 3>>, <<22, 1>>, <<16, 258>>}

LinkInit ==
    /\ lpc = "idle"
    /\ lcall = NoCall
    /\ lret = NoResult
    /\ data_length = -1
    /\ buf = <<>>
    /\ transferred = 0
    /\ wire = <<>>
    /\ polls = 0
    /\ xlog = <<>>
    /\ CodecOff
    /\ CmdOff

\* the call returns r
Return(r) ==
    /\ lret' = r
    /\ lpc' = "done"

call_wait_ready ==
    /\ lpc = "idle"
    /\ lcall' = [NoCall EXCEPT !.fn = "wait_ready"]
    /\ lpc' = "is_ready"
    /\ UNCHANGED <<lret, data_length, buf, transferred, wire, polls, xlog, codecVars, cmdVars>>

call_send_command ==
    /\ lpc = "idle"
    /\ \E ca \in CommandArgs :
          lcall' = [NoCall EXCEPT !.fn = "send_command", !.command = ca[1], !.arg = ca[2]]
    /\ lpc' = "is_ready"
    /\ UNCHANGED <<lret, data_length, buf, transferred, wire, polls, xlog, codecVars, cmdVars>>

call_receive_reply ==
    /\ lpc = "idle"
    /\ \E m \in ExpectedLens :
          lcall' = [NoCall EXCEPT !.fn = "receive_reply", !.expected_len = m]
    /\ lpc' = "receive_data_length"
    /\ UNCHANGED <<lret, data_length, buf, transferred, wire, polls, xlog, codecVars, cmdVars>>

(* wait_ready: `while !self.is_ready()? {}`, one poll per step.  A poll    *)
(* that reads 4 bytes other than the ready signal is discarded; the model  *)
(* lets the device send at most MaxPolls of them.                          *)
wait_ready ==
    /\ lpc = "is_ready"
    /\ \E r \in bulk_transfer_receive(4, HeaderOffers) :
          LET ready == is_ready(r)
          IN  /\ xlog' = Append(xlog, Xfer("is_ready", "recv", 4, r.val, r))
              /\ IF IsErr(ready)
                 THEN Return(ready) /\ UNCHANGED polls
                 ELSE IF ready.val[1]
                 THEN /\ UNCHANGED polls
                      /\ IF lcall.fn = "wait_ready"
                         THEN Return(Ok(<<>>))
                         ELSE lpc' = "send_piecemeal_data" /\ UNCHANGED lret
                 ELSE /\ polls < MaxPolls
                      /\ polls' = polls + 1
                      /\ UNCHANGED <<lpc, lret>>
    /\ UNCHANGED <<lcall, data_length, buf, transferred, wire, codecVars, cmdVars>>

\* a message with the argument in front of the opcode
command_message_ArgFirst(command, arg) == to_be_bytes(arg) \o to_be_bytes(command)

\* send_command: [(command as u32).to_be_bytes(), arg.to_be_bytes()].concat()
command_message(command, arg) == to_be_bytes(command) \o to_be_bytes(arg)

(* send_command after its wait_ready: the 8-byte message is sent by        *)
(* send_piecemeal_data in one bulk transfer.                               *)
send_command ==
    /\ lpc = "send_piecemeal_data"
    /\ LET message == command_message(lcall.command, lcall.arg)
           out     == encode_piecemeal_data(message)
       IN  \E r \in bulk_transfer_send(out) :
              /\ xlog' = Append(xlog, Xfer("send_piecemeal_data", "send", Len(out), out, r))
              /\ Return(IF IsErr(r) THEN r ELSE Ok(<<>>))
    /\ UNCHANGED <<lcall, data_length, buf, transferred, wire, polls, codecVars, cmdVars>>

(* receive_reply: one read of the length header by receive_data_length per *)
(* step.  A header equal to the ready signal is discarded and the read is  *)
(* repeated (at most MaxPolls times in the model).  With the header read,  *)
(* receive_reply tests the declared length and enters receive_data.        *)
receive_data_length ==
    /\ lpc = "receive_data_length"
    /\ \E r \in bulk_transfer_receive(4, HeaderOffers) :
          /\ xlog' = Append(xlog, Xfer("receive_data_length", "recv", 4, r.val, r))
          /\ IF IsErr(r)
             THEN Return(r) /\ UNCHANGED <<data_length, buf, transferred, wire, polls>>
             ELSE IF r.val = READY_SIGNAL
             THEN /\ polls < MaxPolls
                  /\ polls' = polls + 1
                  /\ UNCHANGED <<lpc, lret, data_length, buf, transferred, wire>>
             ELSE IF Len(r.val) # 4 \/ r.val[1] # LengthTag
             THEN Return(Err("Io")) /\ UNCHANGED <<data_length, buf, transferred, wire, polls>>
             ELSE /\ data_length' = low24(r.val)
                  /\ UNCHANGED polls
                  /\ IF length_rejected(data_length', lcall.expected_len)
                     THEN Return(Err("InvalidParam")) /\ UNCHANGED <<buf, transferred, wire>>
                     ELSE /\ buf' = <<>>
                          /\ transferred' = PACKET_SIZE
                          /\ wire' \in Bodies(data_length')
                          /\ lpc' = "receive_data"
                          /\ UNCHANGED lret
    /\ UNCHANGED <<lcall, codecVars, cmdVars>>

\* a receive_data that asks for a whole packet whatever room is left
read_size_WholePacket(cap, held) == PACKET_SIZE

\* receive_data: Self::PACKET_SIZE.min(buf.capacity() - buf.len())
read_size(cap, held) == Min(PACKET_SIZE, cap - held)

(* receive_data: one packet read of the `while transferred == PACKET_SIZE` *)
(* loop per step.                                                          *)
receive_data ==
    /\ lpc = "receive_data"
    /\ more_packets(transferred)
    /\ LET want == read_size(capacity(data_length), Len(buf))
       IN  \E k \in PacketLens(want, Len(wire)) :
           \E r \in bulk_transfer_receive(want, {SubSeq(wire, 1, k)}) :
              /\ xlog' = Append(xlog, Xfer("receive_data", "recv", want, r.val, r))
              /\ IF IsErr(r)
                 THEN Return(r) /\ UNCHANGED <<buf, transferred, wire>>
                 ELSE /\ transferred' = Len(r.val)
                      /\ buf' = buf \o r.val
                      /\ wire' = SubSeq(wire, k + 1, Len(wire))
                      /\ lpc' = IF more_packets(transferred') THEN "receive_data" ELSE "send_ack"
                      /\ UNCHANGED lret
    /\ UNCHANGED <<lcall, data_length, polls, codecVars, cmdVars>>

(* receive_data after its loop: send_ack, then decode_piecemeal_data. *)
send_ack ==
    /\ lpc = "send_ack"
    /\ \E r \in bulk_transfer_send(<<Ack>>) :
          /\ xlog' = Append(xlog, Xfer("send_ack", "send", 1, <<Ack>>, r))
          /\ Return(IF IsErr(r) THEN r ELSE decode_piecemeal_data(buf, data_length))
    /\ UNCHANGED <<lcall, data_length, buf, transferred, wire, polls, codecVars, cmdVars>>

LinkNext ==
    \/ call_wait_ready
    \/ call_send_command
    \/ call_receive_reply
    \/ wait_ready
    \/ send_command
    \/ receive_data_length
    \/ receive_data
    \/ send_ack

SpecLink == LinkInit /\ [][LinkNext]_vars

\* the header declared a length receive_reply must refuse
length_declared_bad == data_length = 0 \/ data_length > lcall.expected_len

-----------------------------------------------------------------------------
(* Command layer (commands.rs): constants and pure helpers *)

\* crate::constants (not among the sources): the sizes of the model's NAND,
\* BLOCK_SIZE an exact multiple of BLOCK_CHUNK_SIZE (spec sections 3 and 6)
BLOCK_SIZE == 4

BLOCK_CHUNK_SIZE == 2

SPARE_SIZE == 6

\* enum Command
Command_WriteBlockAndSpare == 16        \* 0x10

Command_ReadBlockAndSpare == 17         \* 0x11

Command_InitFS == 18                    \* 0x12

Command_GetNumBlocks == 21              \* 0x15

Command_SetSeqNo == 22                  \* 0x16

Command_FileChksum == 28                \* 0x1C

Command_SetLED == 29                    \* 0x1D

Command_SetTime == 30                   \* 0x1E

Command_GetBBID == 31                   \* 0x1F

\* `for _ in 0..5` of read_block_spare and of write_block_spare
ATTEMPTS == 5

\* u32::from_be_bytes through num_from_arr, for values below 2^31
be_u32(b) == b[1] * 16777216 + b[2] * 65536 + b[3] * 256 + b[4]

\* i32::from_be_bytes through num_from_arr: two's complement
be_i32(b) ==
    IF b[1] >= 128
    THEN 0 - be_u32(<<255 - b[1], 255 - b[2], 255 - b[3], 255 - b[4]>>) - 1
    ELSE be_u32(b)

\* command_ret: num_from_arr(&buf[4..8]); the slice panics on a short reply
command_ret(reply) ==
    IF Len(reply) < 8 THEN Panic("range end index 8 out of range for slice")
    ELSE Ok(<<be_i32(SubSeq(reply, 5, 8))>>)

\* a write_block_spare that reads the bad-block marker one byte early
is_marked_bad_Byte4(spare) == spare[5] # 255

\* write_block_spare: `spare[5] != 0xFF` (sequences are 1-based)
is_marked_bad(spare) == spare[6] # 255

\* a send_spare that sends the caller's spare unchanged
spare_sent_Unmasked(spare) == spare

\* send_spare: [&data[..3], &[0xFF; SPARE_SIZE - 3]].concat()
spare_sent(spare) == SubSeq(spare, 1, 3) \o [i \in 1 .. SPARE_SIZE - 3 |-> 255]

\* a write_block_spare whose request uses `?` as read_block_spare's does
try_continue_RequestPropagates(stage) ==
    stage \in {"get_block", "get_spare", "send_block", "send_spare", "check_block_write"}

\* the stages of read_block_spare and write_block_spare wrapped in
\* try_continue!; request_block_read is followed by `?` instead
try_continue(stage) ==
    stage \in {"get_block", "get_spare",
               "request_block_write", "send_block", "send_spare", "check_block_write"}

\* an Init that runs InitFS before it has the filesystem snapshot
init_next_InitFsFirst(f) ==
    CASE f = "set_seqno" -> "get_num_blocks"
      [] f = "get_num_blocks" -> "init_fs"
      [] f = "init_fs" -> "get_current_fs"
      [] f = "get_current_fs" -> "delete_file_and_update"
      [] OTHER -> "return"

\* Init: the function called after f returned without error
init_next(f) ==
    CASE f = "set_seqno" -> "get_num_blocks"
      [] f = "get_num_blocks" -> "get_current_fs"
      [] f = "get_current_fs" -> "init_fs"
      [] f = "init_fs" -> "delete_file_and_update"
      [] OTHER -> "return"

\* a guard that lets every command through
check_initialised_Always(e) == TRUE

\* macro check_initialised!: the body runs only when $e holds
check_initialised(e) == e

\* a Close that marks the connection Uninitialised whatever close_connection
\* returned
close_clears_Always(r) == TRUE

\* Close and drop: is_initialised = false is reached only past the Ok arm
close_clears(r) == IsOk(r)

\* str::split(c): the segments of s between the occurrences of byte c
RECURSIVE split(_, _)
split(s, c) ==
    IF \A i \in 1 .. Len(s) : s[i] # c THEN <<s>>
    ELSE LET i == CHOOSE k \in 1 .. Len(s) :
                     s[k] = c /\ \A j \in 1 .. k - 1 : s[j] # c
         IN  <<SubSeq(s, 1, i - 1)>> \o split(SubSeq(s, i + 1, Len(s)), c)

\* send_filename before its first transfer: FileNameTooLong when the segment
\* before the first '.' has more than 8 bytes or the segment after it more
\* than 3, FileNameCString when CString::new meets a NUL, "" otherwise
filename_error(filename) ==
    LET parts == split(filename, 46)
        name  == parts[1]
        ext   == IF Len(parts) > 1 THEN parts[2] ELSE <<>>
    IN  IF Len(name) > 8 \/ Len(ext) > 3 THEN "FileNameTooLong"
        ELSE IF \E i \in 1 .. Len(filename) : filename[i] = 0 THEN "FileNameCString"
        ELSE ""

\* CString::as_bytes_with_nul
as_bytes_with_nul(filename) == Append(filename, 0)

\* send_filename: the bytes with NUL, zero-padded to a multiple of 4
filename_payload(filename) ==
    LET b == as_bytes_with_nul(filename)
    IN  b \o [i \in 1 .. (4 - (Len(b) % 4)) % 4 |-> 0]

\* close_connection: release_interface(..)?; then, where the platform
\* supports it, attach_kernel_driver(..)?
close_connection(release, supports, attach) ==
    IF IsErr(release) THEN release
    ELSE IF supports /\ IsErr(attach) THEN attach
    ELSE Ok(<<>>)

-----------------------------------------------------------------------------
(* The device seen from the command layer.  In mode "any" it answers a     *)
(* framing-codec call with any Result the call can return; in mode "store" *)
(* it keeps the blocks and spares it is sent and answers from them, and a  *)
(* call may still fail on the bus.                                         *)

LinkErrors == {"Timeout", "Io"}

\* an 8-byte status reply with return code v in bytes 4..7
Status(v) ==
    <<0, 0, 0, 0>>
        \o IF v >= 0 THEN to_be_bytes(v)
           ELSE [i \in 1 .. 4 |-> 255 - to_be_bytes(0 - v - 1)[i]]

Fill(k) == [i \in 1 .. k |-> 170 + i]

\* the reply bodies of a device in mode "any": status replies, among them a
\* block count below MaxBlocks, and bodies of 1, BLOCK_CHUNK_SIZE and
\* SPARE_SIZE bytes
ReplyPool ==
    {Status(v) : v \in (0 .. MaxBlocks - 1) \cup {-1}}
        \cup {Fill(k) : k \in {1, BLOCK_CHUNK_SIZE, SPARE_SIZE}}

AnyCall(fn, max) ==
    IF fn = "receive_reply"
    THEN {Ok(d) : d \in {x \in ReplyPool : Len(x) <= max}}
            \cup {Err(e) : e \in LinkErrors \cup {"InvalidParam"}}
            \cup {Panic("Data length does not match expected")}
    ELSE {Ok(<<>>)} \cup {Err(e) : e \in LinkErrors}

DevInit(mode) ==
    [mode |-> mode,
     nand |-> [n \in 0 .. MaxBlocks - 1 |->
                 [block |-> [i \in 1 .. BLOCK_SIZE |-> n],
                  spare |-> <<n, n, n, 255, 255, 255>>]],
     queue |-> <<>>, target |-> -1, acc |-> <<>>]

Chunks(block) ==
    [i \in 1 .. (Len(block) \div BLOCK_CHUNK_SIZE) |->
        SubSeq(block, (i - 1) * BLOCK_CHUNK_SIZE + 1, i * BLOCK_CHUNK_SIZE)]

\* the storing device receives a command frame
DevCommand(command, arg) ==
    CASE command = Command_ReadBlockAndSpare ->
            [dev EXCEPT !.target = -1, !.acc = <<>>,
                        !.queue = IF arg \in DOMAIN dev.nand
                                  THEN <<Status(0)>> \o Chunks(dev.nand[arg].block)
                                          \o <<dev.nand[arg].spare>>
                                  ELSE <<Status(-1)>>]
      [] command = Command_WriteBlockAndSpare ->
            [dev EXCEPT !.target = IF arg \in DOMAIN dev.nand THEN arg ELSE -1,
                        !.acc = <<>>, !.queue = <<>>]
      [] command = Command_GetNumBlocks ->
            [dev EXCEPT !.target = -1, !.acc = <<>>, !.queue = <<Status(MaxBlocks)>>]
      [] OTHER ->
            [dev EXCEPT !.target = -1, !.acc = <<>>, !.queue = <<Status(0)>>]

\* the storing device receives a piecemeal payload: the spare of the block
\* being written, which it stores with the block body received before
DevPiecemeal(data) ==
    IF dev.target = -1 THEN dev
    ELSE [dev EXCEPT !.nand[dev.target] = [block |-> dev.acc, spare |-> data],
                     !.queue = <<Status(0)>>, !.target = -1, !.acc = <<>>]

StoreCall(fn, command, arg, data, max) ==
    CASE fn = "send_command" ->
            {<<Err(e), dev>> : e \in LinkErrors}
                \cup {<<Ok(<<>>), DevCommand(command, arg)>>}
      [] fn = "send_chunked_data" ->
            {<<Err(e), dev>> : e \in LinkErrors}
                \cup {<<Ok(<<>>), [dev EXCEPT !.acc = data]>>}
      [] fn = "send_piecemeal_data" ->
            {<<Err(e), dev>> : e \in LinkErrors}
                \cup {<<Ok(<<>>), DevPiecemeal(data)>>}
      [] fn = "receive_reply" ->
            IF dev.queue = <<>> THEN {<<Err("Timeout"), dev>>}
            ELSE LET h    == Head(dev.queue)
                     rest == [dev EXCEPT !.queue = Tail(dev.queue)]
                 IN  {<<Err(e), rest>> : e \in LinkErrors}
                        \cup {<<IF Len(h) >= 1 /\ Len(h) <= max
                                THEN Ok(h) ELSE Err("InvalidParam"), rest>>}
      [] OTHER ->
            {<<Err(e), dev>> : e \in LinkErrors} \cup {<<Ok(<<>>), dev>>}

\* the outcomes of one framing-codec call: <<Result, device afterwards>>
LinkCall(fn, command, arg, data, max) ==
    IF dev.mode = "store" THEN StoreCall(fn, command, arg, data, max)
    ELSE {<<r, dev>> : r \in AnyCall(fn, max)}

\* filesystem collaborator (mod fs, not among the sources)
FsResults == {Ok(<<>>), Err("Timeout")}

\* rusb results of release_interface and attach_kernel_driver
UsbResults == {Ok(<<>>), Err("NoDevice")}

-----------------------------------------------------------------------------
(* Session and command tier: actions *)

BlockNums == 0 .. MaxBlocks - 1

\* the block bodies and spares WriteSingleBlock is called with: a good block
\* with data in spare bytes 3 and 4, a block marked bad, a good block whose
\* spare is already 0xFF past byte 2
WriteBlocks == {[i \in 1 .. BLOCK_SIZE |-> 16 + i]}

WriteSpares == {<<1, 2, 3, 154, 0, 255>>, <<1, 2, 3, 154, 0, 0>>, <<4, 5, 6, 255, 255, 255>>}

\* SetTime: year % 100, month, day, weekday, 0, hour, minute, second
TimeData == <<26, 11, 5, 3, 0, 21, 30, 59>>

\* the filenames file_checksum_cmp is called with: AUTOEXEC.CFG,
\* AUTOEXECUTE.CFG, README, A.TEXT, A.B.ARCHIVE, and A<NUL>B
FileNames ==
    {<<65, 85, 84, 79, 69, 88, 69, 67, 46, 67, 70, 71>>,
     <<65, 85, 84, 79, 69, 88, 69, 67, 85, 84, 69, 46, 67, 70, 71>>,
     <<82, 69, 65, 68, 77, 69>>,
     <<65, 46, 84, 69, 88, 84>>,
     <<65, 46, 66, 46, 65, 82, 67, 72, 73, 86, 69>>,
     <<65, 0, 66>>}

\* the <<chksum, size>> pairs file_checksum_cmp is called with
ChecksumArgs == {<<7, 4>>}

\* the filesystem pass-throughs of lib.rs and the function each forwards to
FsOps ==
    {<<"ListFileBlocks", "list_file_blocks">>, <<"ListFiles", "list_files">>,
     <<"DumpCurrentFS", "dump_current_fs">>, <<"ReadFile", "read_file">>,
     <<"WriteFile", "write_file">>, <<"DeleteFile", "delete_file_and_update">>,
     <<"GetStats", "get_stats">>}

FsFunctions == {o[2] : o \in FsOps}

CmdInit ==
    /\ is_initialised = FALSE
    /\ pc = "idle"
    /\ op = NoOp
    /\ result = NoResult
    /\ attempt = 0
    /\ block_buf = <<>>
    /\ dump = NoDump
    /\ clog = <<>>
    /\ dev \in {DevInit("any"), DevInit("store")}
    /\ prev = NoOp
    /\ CodecOff
    /\ LinkOff

\* one entry of clog: the command-layer function `by` called `fn`
Entry(by, fn, command, arg, data, file, r, out) ==
    [by |-> by, fn |-> fn, command |-> command, arg |-> arg, data |-> data,
     file |-> file, err |-> IF IsErr(r) THEN r.err ELSE "",
     out |-> IF IsPanic(out) THEN "panic" ELSE IF IsOk(out) THEN "ok" ELSE "fail"]

\* the first call of an attempt starts the attempt's log
Log(e) ==
    clog' = IF pc \in {"request_block_read", "request_block_write"}
            THEN <<e>> ELSE Append(clog, e)

\* a dump that walks the blocks from the last one down
dump_index_Descending(k, num_blocks) == num_blocks - 1 - k

\* dump_nand_and_spare: the index `for block_num in 0..num_blocks` yields
\* after k blocks
dump_index(k, num_blocks) == k

\* the block read_block_spare is reading
CurBlock ==
    IF op.name = "DumpNAND" THEN dump_index(dump.block_num, dump.num_blocks) ELSE op.num

Goto(p) ==
    /\ pc' = p
    /\ UNCHANGED <<result, is_initialised, dump, attempt>>

\* the public operation returns r
Done(r) ==
    /\ pc' = "idle"
    /\ result' = r

Panicked(r) ==
    /\ pc' = "panicked"
    /\ result' = r
    /\ UNCHANGED <<is_initialised, dump, attempt>>

\* an Init that marks the connection Initialised whatever its step returned
init_marks_Always(r) == TRUE

\* Init: `self.is_initialised = true` lies behind the `?` of every step
init_marks(r) == IsOk(r)

\* Init, after the function f it called returned r
InitContinue(f, r) ==
    /\ UNCHANGED <<dump, attempt>>
    /\ IF IsErr(r)
       THEN Done(r) /\ is_initialised' = IF init_marks(r) THEN TRUE ELSE is_initialised
       ELSE IF f = "get_current_fs" /\ r.val = <<FALSE>>
       THEN Done(Err("FS")) /\ UNCHANGED is_initialised
       ELSE IF init_next(f) = "return"
       THEN Done(Ok(<<>>)) /\ is_initialised' = TRUE
       ELSE pc' = init_next(f) /\ UNCHANGED <<result, is_initialised>>

\* dump_nand_and_spare, after get_num_blocks or read_block_spare returned r;
\* the model follows a dump of at most MaxBlocks blocks
DumpContinue(f, r) ==
    /\ UNCHANGED is_initialised
    /\ f = "get_num_blocks" /\ IsOk(r) => r.val[1] < 128 /\ be_u32(r.val) <= MaxBlocks
    /\ IF IsErr(r) THEN Done(r) /\ UNCHANGED <<dump, attempt>>
       ELSE LET d == IF f = "get_num_blocks"
                     THEN [NoDump EXCEPT !.num_blocks = be_u32(r.val)]
                     ELSE [dump EXCEPT !.block_num = @ + 1,
                                       !.nand = @ \o r.val[1],
                                       !.spare = @ \o r.val[2]]
            IN  /\ dump' = IF d.block_num < d.num_blocks
                           THEN [d EXCEPT !.reads =
                                    Append(@, dump_index(d.block_num, d.num_blocks))]
                           ELSE d
                /\ IF d.block_num < d.num_blocks
                   THEN pc' = "request_block_read" /\ attempt' = 1 /\ UNCHANGED result
                   ELSE Done(Ok(<<d.nand, d.spare>>)) /\ UNCHANGED attempt

\* the command-layer function f returns r to the public operation
Returns(f, r) ==
    IF IsPanic(r) THEN Panicked(r)
    ELSE IF op.name = "Init" THEN InitContinue(f, r)
    ELSE IF op.name = "DumpNAND" THEN DumpContinue(f, r)
    ELSE Done(r) /\ UNCHANGED <<is_initialised, dump, attempt>>

\* a stage of read_block_spare (f) or write_block_spare failed with r: `?`
\* returns r; try_continue! starts the next attempt at `start`, and the loop's
\* end returns `exhausted`
Fail(stage, f, r, start, exhausted) ==
    IF IsPanic(r) THEN Panicked(r)
    ELSE IF ~try_continue(stage) THEN Returns(f, r)
    ELSE IF attempt < ATTEMPTS
    THEN pc' = start /\ attempt' = attempt + 1 /\ UNCHANGED <<result, is_initialised, dump>>
    ELSE Returns(f, exhausted)

\* a public operation is called
Call(name, num, data, spare) ==
    /\ pc = "idle"
    /\ op' = [name |-> name, num |-> num, data |-> data, spare |-> spare,
              was_init |-> is_initialised,
              before |-> IF name = "WriteSingleBlock" /\ dev.mode = "store"
                         THEN <<dev.nand[num].block, dev.nand[num].spare>> ELSE <<>>]
    /\ prev' = IF name = "ReadSingleBlock" /\ op.name = "WriteSingleBlock"
                  /\ op.num = num /\ op.was_init /\ IsOk(result) /\ dev.mode = "store"
               THEN op ELSE NoOp
    /\ clog' = <<>>
    /\ block_buf' = <<>>
    /\ dump' = NoDump
    /\ UNCHANGED dev

\* the guarded body starts at `first`, or the call returns NoConsole
Guarded(first, n) ==
    /\ UNCHANGED is_initialised
    /\ IF check_initialised(is_initialised)
       THEN pc' = first /\ result' = NoResult /\ attempt' = n
       ELSE pc' = "idle" /\ result' = Err("NoConsole") /\ attempt' = 0

Init ==
    /\ Call("Init", 0, <<>>, <<>>)
    /\ pc' = "set_seqno" /\ result' = NoResult /\ attempt' = 0
    /\ UNCHANGED <<is_initialised, codecVars, linkVars>>

GetBBID ==
    /\ Call("GetBBID", 0, <<>>, <<>>)
    /\ Guarded("get_bbid", 0)
    /\ UNCHANGED <<codecVars, linkVars>>

SetLED ==
    /\ \E ledval \in {0, 2} : Call("SetLED", ledval, <<>>, <<>>)
    /\ Guarded("set_led", 0)
    /\ UNCHANGED <<codecVars, linkVars>>

SetTime ==
    /\ Call("SetTime", 0, TimeData, <<>>)
    /\ Guarded("set_time", 0)
    /\ UNCHANGED <<codecVars, linkVars>>

\* ListFileBlocks, ListFiles, DumpCurrentFS, ReadFile, WriteFile, DeleteFile,
\* GetStats
FsPassThrough ==
    /\ \E o \in FsOps :
          /\ Call(o[1], 0, <<>>, <<>>)
          /\ Guarded(o[2], 0)
    /\ UNCHANGED <<codecVars, linkVars>>

DumpNAND ==
    /\ Call("DumpNAND", 0, <<>>, <<>>)
    /\ Guarded("get_num_blocks", 0)
    /\ UNCHANGED <<codecVars, linkVars>>

ReadSingleBlock ==
    /\ \E n \in BlockNums : Call("ReadSingleBlock", n, <<>>, <<>>)
    /\ Guarded("request_block_read", 1)
    /\ UNCHANGED <<codecVars, linkVars>>

\* WriteSingleBlock, and write_block_spare up to its loop: a spare marked bad
\* returns Ok(()) at once
WriteSingleBlock ==
    /\ \E n \in BlockNums, b \in WriteBlocks, sp \in WriteSpares :
          /\ Call("WriteSingleBlock", n, b, sp)
          /\ IF check_initialised(is_initialised) /\ is_marked_bad(sp)
             THEN pc' = "idle" /\ result' = Ok(<<>>) /\ attempt' = 0
                  /\ UNCHANGED is_initialised
             ELSE Guarded("request_block_write", 1)
    /\ UNCHANGED <<codecVars, linkVars>>

\* file_checksum_cmp(filename, chksum, size), called by mod fs from inside a
\* guarded command, and send_filename up to its first transfer; op.num holds
\* chksum and op.spare holds <<size>>
FileChecksumCmp ==
    /\ is_initialised
    /\ \E filename \in FileNames, cs \in ChecksumArgs :
          /\ Call("file_checksum_cmp", cs[1], filename, <<cs[2]>>)
          /\ IF filename_error(filename) # ""
             THEN pc' = "idle" /\ result' = Err(filename_error(filename))
             ELSE pc' = "send_filename" /\ result' = NoResult
    /\ attempt' = 0
    /\ UNCHANGED <<is_initialised, codecVars, linkVars>>

\* Close, with close_connection's two rusb calls
Close ==
    /\ Call("Close", 0, <<>>, <<>>)
    /\ pc' = "idle"
    /\ attempt' = 0
    /\ IF check_initialised(is_initialised)
       THEN \E release \in UsbResults, supports \in BOOLEAN, attach \in UsbResults :
               LET r == close_connection(release, supports, attach)
               IN  /\ result' = r
                   /\ is_initialised' = IF close_clears(r) THEN FALSE ELSE is_initialised
       ELSE result' = Err("NoConsole") /\ UNCHANGED is_initialised
    /\ UNCHANGED <<codecVars, linkVars>>

\* `self.send_command(command, arg)?` of the function at pc = f, which goes
\* on at `next`
SendCommand(f, command, arg, next) ==
    /\ pc = f
    /\ \E o \in LinkCall("send_command", command, arg, <<>>, 0) :
          /\ dev' = o[2]
          /\ Log(Entry(f, "send_command", command, arg, <<>>, "", o[1], o[1]))
          /\ IF IsOk(o[1]) THEN Goto(next) ELSE Returns(f, o[1])
    /\ UNCHANGED <<op, block_buf, prev, codecVars, linkVars>>

\* set_seqno: the reply is received and dropped
set_seqno_reply(reply) == Ok(<<>>)

\* the u32 is kept as its four big-endian bytes
get_num_blocks_reply(reply) ==
    IF Len(reply) < 8 THEN Panic("range end index 8 out of range for slice")
    ELSE Ok(SubSeq(reply, 5, 8))

\* init_fs: a negative return code is InitFS(ret)
init_fs_reply(reply) ==
    LET ret == command_ret(reply)
    IN  IF IsPanic(ret) THEN ret
        ELSE IF ret.val[1] < 0 THEN ErrC("InitFS", ret.val[1])
        ELSE Ok(<<>>)

\* a get_bbid that returns the reply's status field whatever its sign
get_bbid_reply_Unchecked(reply) ==
    IF Len(reply) < 8 THEN Panic("range end index 8 out of range for slice")
    ELSE Ok(SubSeq(reply, 5, 8))

\* get_bbid: a negative return code is GetBBID(ret); the u32 is kept as its
\* four big-endian bytes
get_bbid_reply(reply) ==
    LET ret == command_ret(reply)
    IN  IF IsPanic(ret) THEN ret
        ELSE IF ret.val[1] < 0 THEN ErrC("GetBBID", ret.val[1])
        ELSE Ok(SubSeq(reply, 5, 8))

\* set_led: the reply is received and dropped
set_led_reply(reply) == Ok(<<>>)

\* send_params_and_receive_reply: Ok(num_from_arr::<i32>(&reply[4..8]) == 0)
checksum_reply(reply) ==
    IF Len(reply) < 8 THEN Panic("range end index 8 out of range for slice")
    ELSE Ok(<<be_i32(SubSeq(reply, 5, 8)) = 0>>)

\* what function f makes of the reply it received
reply_result(f, reply) ==
    CASE f = "set_seqno" -> set_seqno_reply(reply)
      [] f = "get_num_blocks" -> get_num_blocks_reply(reply)
      [] f = "init_fs" -> init_fs_reply(reply)
      [] f = "get_bbid" -> get_bbid_reply(reply)
      [] f = "set_led" -> set_led_reply(reply)
      [] f = "send_params_and_receive_reply" -> checksum_reply(reply)

\* `self.receive_reply(8)?` of function f at pc = here, which returns
\* reply_result(f, reply)
ReceiveReply(f, here) ==
    /\ pc = here
    /\ \E o \in LinkCall("receive_reply", 0, 0, <<>>, 8) :
          LET r == IF IsOk(o[1]) THEN reply_result(f, o[1].val) ELSE o[1]
          IN  /\ dev' = o[2]
              /\ Log(Entry(f, "receive_reply", 0, 8, o[1].val, "", o[1], r))
              /\ Returns(f, r)
    /\ UNCHANGED <<op, block_buf, prev, codecVars, linkVars>>

set_seqno ==
    \/ SendCommand("set_seqno", Command_SetSeqNo, 1, "set_seqno.reply")
    \/ ReceiveReply("set_seqno", "set_seqno.reply")

get_num_blocks ==
    \/ SendCommand("get_num_blocks", Command_GetNumBlocks, 0, "get_num_blocks.reply")
    \/ ReceiveReply("get_num_blocks", "get_num_blocks.reply")

init_fs ==
    \/ SendCommand("init_fs", Command_InitFS, 0, "init_fs.reply")
    \/ ReceiveReply("init_fs", "init_fs.reply")

get_bbid ==
    \/ SendCommand("get_bbid", Command_GetBBID, 0, "get_bbid.reply")
    \/ ReceiveReply("get_bbid", "get_bbid.reply")

set_led ==
    \/ SendCommand("set_led", Command_SetLED, op.num, "set_led.reply")
    \/ ReceiveReply("set_led", "set_led.reply")

(* set_time: the command carries the first four bytes of timedata; after a *)
(* reply whose return code is not negative the last four are sent by       *)
(* send_piecemeal_data.                                                    *)
set_time ==
    \/ SendCommand("set_time", Command_SetTime, be_u32(SubSeq(op.data, 1, 4)), "set_time.reply")
    \/ /\ pc = "set_time.reply"
       /\ \E o \in LinkCall("receive_reply", 0, 0, <<>>, 8) :
             LET ret == IF IsOk(o[1]) THEN command_ret(o[1].val) ELSE o[1]
                 r   == IF IsOk(ret) /\ ret.val[1] < 0
                        THEN ErrC("SetTime", ret.val[1]) ELSE ret
             IN  /\ dev' = o[2]
                 /\ Log(Entry("set_time", "receive_reply", 0, 8, o[1].val, "", o[1], r))
                 /\ IF IsOk(r) THEN Goto("set_time.send") ELSE Returns("set_time", r)
       /\ UNCHANGED <<op, block_buf, prev, codecVars, linkVars>>
    \/ /\ pc = "set_time.send"
       /\ LET second_half == SubSeq(op.data, 5, 8)
          IN  \E o \in LinkCall("send_piecemeal_data", 0, 0, second_half, 0) :
                 /\ dev' = o[2]
                 /\ Log(Entry("set_time", "send_piecemeal_data", 0, 0, second_half, "",
                              o[1], o[1]))
                 /\ Returns("set_time", o[1])
       /\ UNCHANGED <<op, block_buf, prev, codecVars, linkVars>>

\* `self.fn(data)?` of function f at pc = here, which goes on at `next`
SendStage(f, here, fn, data, next) ==
    /\ pc = here
    /\ \E o \in LinkCall(fn, 0, 0, data, 0) :
          /\ dev' = o[2]
          /\ Log(Entry(f, fn, 0, 0, data, "", o[1], o[1]))
          /\ IF IsOk(o[1]) THEN Goto(next) ELSE Returns(f, o[1])
    /\ UNCHANGED <<op, block_buf, prev, codecVars, linkVars>>

(* send_filename after its checks: the FileChksum command with the length  *)
(* of the NUL-terminated name, a ready wait, the padded name.              *)
send_filename ==
    \/ SendCommand("send_filename", Command_FileChksum, Len(as_bytes_with_nul(op.data)),
                   "send_filename.wait")
    \/ SendStage("send_filename", "send_filename.wait", "wait_ready", <<>>,
                 "send_filename.send")
    \/ SendStage("send_filename", "send_filename.send", "send_piecemeal_data",
                 filename_payload(op.data), "send_params_and_receive_reply")

(* send_params_and_receive_reply: the command envelope with chksum as the  *)
(* opcode and size as the argument, then the reply.                        *)
send_params_and_receive_reply ==
    \/ SendCommand("send_params_and_receive_reply", op.num, op.spare[1],
                   "send_params_and_receive_reply.reply")
    \/ ReceiveReply("send_params_and_receive_reply", "send_params_and_receive_reply.reply")

(* mod fs: get_current_fs tells whether a filesystem block was found. *)
get_current_fs ==
    /\ pc = "get_current_fs"
    /\ \E r \in {Ok(<<TRUE>>), Ok(<<FALSE>>), Err("Timeout")} :
          /\ Log(Entry("get_current_fs", "get_current_fs", 0, 0, <<>>, "", r,
                       IF r = Ok(<<FALSE>>) THEN Err("FS") ELSE r))
          /\ Returns("get_current_fs", r)
    /\ UNCHANGED <<op, block_buf, prev, dev, codecVars, linkVars>>

(* mod fs: the functions behind the filesystem pass-throughs, and the      *)
(* delete of the scratch file by Init.                                     *)
fs_function ==
    /\ pc \in FsFunctions
    /\ \E r \in FsResults :
          /\ Log(Entry(pc, pc, 0, 0, <<>>,
                       IF op.name = "Init" THEN "temp.tmp" ELSE "file", r, r))
          /\ Returns(pc, r)
    /\ UNCHANGED <<op, block_buf, prev, dev, codecVars, linkVars>>

(* read_block_spare: request_block_read, get_block, get_spare, up to       *)
(* ATTEMPTS times.                                                         *)
request_block_read ==
    \/ /\ pc = "request_block_read"
       /\ \E o \in LinkCall("send_command", Command_ReadBlockAndSpare, CurBlock, <<>>, 0) :
             /\ dev' = o[2]
             /\ Log(Entry("request_block_read", "send_command", Command_ReadBlockAndSpare,
                          CurBlock, <<>>, "", o[1], o[1]))
             /\ IF IsOk(o[1]) THEN Goto("request_block_read.reply")
                ELSE Fail("request_block_read", "read_block_spare", o[1],
                          "request_block_read", ErrC("ReadBlock", CurBlock))
       /\ UNCHANGED <<op, block_buf, prev, codecVars, linkVars>>
    \/ /\ pc = "request_block_read.reply"
       /\ \E o \in LinkCall("receive_reply", 0, 0, <<>>, 8) :
             LET ret == IF IsOk(o[1]) THEN command_ret(o[1].val) ELSE o[1]
                 r   == IF IsOk(ret) /\ ret.val[1] < 0
                        THEN ErrC("Command", ret.val[1]) ELSE ret
             IN  /\ dev' = o[2]
                 /\ Log(Entry("request_block_read", "receive_reply", 0, 8, o[1].val, "",
                              o[1], r))
                 /\ IF IsOk(r) THEN Goto("get_block") /\ block_buf' = <<>>
                    ELSE /\ Fail("request_block_read", "read_block_spare", r,
                                 "request_block_read", ErrC("ReadBlock", CurBlock))
                         /\ UNCHANGED block_buf
       /\ UNCHANGED <<op, prev, codecVars, linkVars>>

\* the receive_reply calls get_block has made in this attempt
ChunksDone == Len(SelectSeq(clog, LAMBDA e : e.by = "get_block"))

\* a get_block that makes one receive per byte of the block
get_block_reads_PerByte == BLOCK_SIZE

\* get_block: `for _ in 0..(BLOCK_SIZE / BLOCK_CHUNK_SIZE)`
get_block_reads == BLOCK_SIZE \div BLOCK_CHUNK_SIZE

get_block ==
    /\ pc = "get_block"
    /\ \E o \in LinkCall("receive_reply", 0, 0, <<>>, BLOCK_CHUNK_SIZE) :
          /\ dev' = o[2]
          /\ Log(Entry("get_block", "receive_reply", 0, BLOCK_CHUNK_SIZE, o[1].val, "",
                       o[1], o[1]))
          /\ IF IsOk(o[1])
             THEN /\ block_buf' = block_buf \o o[1].val
                  /\ Goto(IF ChunksDone + 1 < get_block_reads
                          THEN "get_block" ELSE "get_spare")
             ELSE /\ Fail("get_block", "read_block_spare", o[1],
                          "request_block_read", ErrC("ReadBlock", CurBlock))
                  /\ UNCHANGED block_buf
    /\ UNCHANGED <<op, prev, codecVars, linkVars>>

get_spare ==
    /\ pc = "get_spare"
    /\ \E o \in LinkCall("receive_reply", 0, 0, <<>>, SPARE_SIZE) :
          /\ dev' = o[2]
          /\ Log(Entry("get_spare", "receive_reply", 0, SPARE_SIZE, o[1].val, "",
                       o[1], o[1]))
          /\ IF IsOk(o[1])
             THEN Returns("read_block_spare", Ok(<<block_buf, o[1].val>>))
             ELSE Fail("get_spare", "read_block_spare", o[1],
                       "request_block_read", ErrC("ReadBlock", CurBlock))
    /\ UNCHANGED <<op, block_buf, prev, codecVars, linkVars>>

\* one call of write_block_spare's loop that carries no reply: `stage` calls
\* fn at pc = here and goes on at `next`
WriteStage(stage, here, fn, command, arg, data, next) ==
    /\ pc = here
    /\ \E o \in LinkCall(fn, command, arg, data, 0) :
          /\ dev' = o[2]
          /\ Log(Entry(stage, fn, command, arg, data, "", o[1], o[1]))
          /\ IF IsOk(o[1]) THEN Goto(next)
             ELSE Fail(stage, "write_block_spare", o[1],
                       "request_block_write", ErrC("WriteBlock", op.num))
    /\ UNCHANGED <<op, block_buf, prev, codecVars, linkVars>>

request_block_write ==
    \/ WriteStage("request_block_write", "request_block_write", "send_command",
                  Command_WriteBlockAndSpare, op.num, <<>>, "request_block_write.wait")
    \/ WriteStage("request_block_write", "request_block_write.wait", "wait_ready",
                  0, 0, <<>>, "send_block")

send_block ==
    WriteStage("send_block", "send_block", "send_chunked_data", 0, 0, op.data,
               "send_spare.wait")

send_spare ==
    \/ WriteStage("send_spare", "send_spare.wait", "wait_ready", 0, 0, <<>>, "send_spare")
    \/ WriteStage("send_spare", "send_spare", "send_piecemeal_data", 0, 0,
                  spare_sent(op.spare), "check_block_write")

\* a check_block_write that accepts every return code
write_refused_Never(ret) == FALSE

\* check_block_write: `if ret < 0`
write_refused(ret) == ret < 0

check_block_write ==
    /\ pc = "check_block_write"
    /\ \E o \in LinkCall("receive_reply", 0, 0, <<>>, 8) :
          LET ret == IF IsOk(o[1]) THEN command_ret(o[1].val) ELSE o[1]
              r   == IF IsOk(ret) /\ write_refused(ret.val[1])
                     THEN ErrC("CheckBlockWrite", ret.val[1]) ELSE ret
          IN  /\ dev' = o[2]
              /\ Log(Entry("check_block_write", "receive_reply", 0, 8, o[1].val, "",
                           o[1], r))
              /\ IF IsOk(r) THEN Returns("write_block_spare", Ok(<<>>))
                 ELSE Fail("check_block_write", "write_block_spare", r,
                           "request_block_write", ErrC("WriteBlock", op.num))
    /\ UNCHANGED <<op, block_buf, prev, codecVars, linkVars>>

(* impl Drop: a connection discarded while Initialised is closed; a failed *)
(* close is printed and leaves the flag set.                               *)
Drop ==
    /\ pc \in {"idle", "panicked"}
    /\ pc' = "dropped"
    /\ IF is_initialised
       THEN \E release \in UsbResults, supports \in BOOLEAN, attach \in UsbResults :
               is_initialised' =
                   IF close_clears(close_connection(release, supports, attach))
                   THEN FALSE ELSE is_initialised
       ELSE UNCHANGED is_initialised
    /\ UNCHANGED <<op, result, attempt, block_buf, dump, clog, dev, prev,
                   codecVars, linkVars>>

Next ==
    \/ Init
    \/ GetBBID
    \/ SetLED
    \/ SetTime
    \/ FsPassThrough
    \/ DumpNAND
    \/ ReadSingleBlock
    \/ WriteSingleBlock
    \/ FileChecksumCmp
    \/ Close
    \/ Drop
    \/ set_seqno
    \/ get_num_blocks
    \/ get_current_fs
    \/ init_fs
    \/ fs_function
    \/ get_bbid
    \/ set_led
    \/ set_time
    \/ send_filename
    \/ send_params_and_receive_reply
    \/ request_block_read
    \/ get_block
    \/ get_spare
    \/ request_block_write
    \/ send_block
    \/ send_spare
    \/ check_block_write

Spec == CmdInit /\ [][Next]_vars

-----------------------------------------------------------------------------
(* Properties of the session and command tier *)

\* the public commands behind check_initialised! other than Close
GatedCommands ==
    {"GetBBID", "SetLED", "SetTime", "DumpNAND", "ReadSingleBlock", "WriteSingleBlock"}
        \cup {o[1] : o \in FsOps}

(* C1: while the connection is Uninitialised every public command other    *)
(* than Init returns the NoConsole state error and performs no bulk send   *)
(* and no bulk receive: no framing-codec call is made and the device is    *)
(* left as it was.                                                         *)
C1_NoConsole ==
    op.name \in GatedCommands /\ ~op.was_init =>
        /\ pc \in {"idle", "dropped"}
        /\ result = Err("NoConsole")
        /\ clog = <<>>
        /\ ~is_initialised

\* a block was written, the connection closed, and a read then refused
C1_Witness ==
    /\ op.name = "ReadSingleBlock"
    /\ ~op.was_init
    /\ pc = "idle"
    /\ result = Err("NoConsole")
    /\ dev.mode = "store"
    /\ dev.nand # DevInit("store").nand

\* the calls of a complete Init, in order: <<function of the command layer,
\* call it makes, opcode, argument, file>>
InitTrace ==
    <<  <<"set_seqno", "send_command", Command_SetSeqNo, 1, "">>,
        <<"set_seqno", "receive_reply", 0, 8, "">>,
        <<"get_num_blocks", "send_command", Command_GetNumBlocks, 0, "">>,
        <<"get_num_blocks", "receive_reply", 0, 8, "">>,
        <<"get_current_fs", "get_current_fs", 0, 0, "">>,
        <<"init_fs", "send_command", Command_InitFS, 0, "">>,
        <<"init_fs", "receive_reply", 0, 8, "">>,
        <<"delete_file_and_update", "delete_file_and_update", 0, 0, "temp.tmp">>  >>

\* every entry of the log before the last one succeeded
OnlyLastFailed == \A i \in 1 .. Len(clog) - 1 : clog[i].out = "ok"

AllOk == \A i \in 1 .. Len(clog) : clog[i].out = "ok"

(* C2: Init performs SetSeqNo(1), GetNumBlocks, the fetch of the current   *)
(* filesystem, InitFS and the delete of temp.tmp in exactly this order;    *)
(* the first failing step ends Init with an error and nothing follows it;  *)
(* the flag is set only on the return that follows five successes, and a   *)
(* failed Init leaves it as it was.                                        *)
C2_InitOrder ==
    op.name = "Init" =>
        /\ Len(clog) <= Len(InitTrace)
        /\ \A i \in 1 .. Len(clog) :
              <<clog[i].by, clog[i].fn, clog[i].command, clog[i].arg, clog[i].file>>
                  = InitTrace[i]
        /\ OnlyLastFailed
        /\ IsOk(result) <=> (pc \in {"idle", "dropped"} /\ Len(clog) = Len(InitTrace) /\ AllOk)
        /\ ~AllOk => pc \in {"idle", "panicked", "dropped"} /\ ~IsOk(result)
        /\ pc # "dropped" => is_initialised = (op.was_init \/ IsOk(result))

\* Init stopped at a missing filesystem: InitFS was never sent
C2_Witness ==
    /\ op.name = "Init"
    /\ ~op.was_init
    /\ pc = "idle"
    /\ result = Err("FS")
    /\ Len(clog) = 5
    /\ ~is_initialised

(* C3: ReadSingleBlock(n) fails only after 5 attempts, each abandoned at   *)
(* its first failing stage, and then with the ReadBlock error carrying n.  *)
C3_ReadRetries ==
    op.name = "ReadSingleBlock" /\ op.was_init /\ pc = "idle" /\ IsErr(result) =>
        /\ result = ErrC("ReadBlock", op.num)
        /\ attempt = ATTEMPTS

\* the calls of a complete write attempt, in order
WriteTrace ==
    <<  <<"request_block_write", "send_command">>,
        <<"request_block_write", "wait_ready">>,
        <<"send_block", "send_chunked_data">>,
        <<"send_spare", "wait_ready">>,
        <<"send_spare", "send_piecemeal_data">>,
        <<"check_block_write", "receive_reply">>  >>

(* C4: WriteSingleBlock(block, spare, n) with spare[5] = 0xFF makes at     *)
(* most 5 attempts; a failure at any stage abandons the attempt and the    *)
(* next one starts from the command frame; success is returned by the      *)
(* first attempt whose six calls all succeed, and the error returned after *)
(* the fifth failed attempt is WriteBlock carrying n.                      *)
C4_WriteRetries ==
    op.name = "WriteSingleBlock" /\ op.was_init /\ op.spare[6] = 255 =>
        /\ attempt \in 1 .. ATTEMPTS
        /\ Len(clog) <= Len(WriteTrace)
        /\ \A i \in 1 .. Len(clog) : <<clog[i].by, clog[i].fn>> = WriteTrace[i]
        /\ OnlyLastFailed
        /\ clog = <<>> => pc = "request_block_write" /\ attempt = 1
        /\ pc = "request_block_write" /\ attempt > 1 =>
              clog # <<>> /\ clog[Len(clog)].out = "fail"
        /\ clog # <<>> /\ clog[Len(clog)].out = "fail" =>
              \/ pc = "request_block_write" /\ attempt > 1
              \/ pc \in {"idle", "dropped"} /\ attempt = ATTEMPTS /\ IsErr(result)
        /\ IsOk(result) <=>
              (pc \in {"idle", "dropped"} /\ Len(clog) = Len(WriteTrace) /\ AllOk)
        /\ IsErr(result) => result = ErrC("WriteBlock", op.num) /\ attempt = ATTEMPTS

\* the fifth attempt failed at the write acknowledgment
C4_Witness ==
    /\ op.name = "WriteSingleBlock"
    /\ op.was_init
    /\ op.spare[6] = 255
    /\ pc = "idle"
    /\ result = ErrC("WriteBlock", op.num)
    /\ attempt = ATTEMPTS
    /\ Len(clog) = Len(WriteTrace)

\* the write acknowledgment clog[6] carries a reply of 8 bytes or more whose
\* return code, bytes 4..8 as a big-endian i32, has its sign bit set
NegativeAck ==
    /\ Len(clog) = Len(WriteTrace)
    /\ clog[6].err = ""
    /\ Len(clog[6].data) >= 8
    /\ clog[6].data[5] >= 128

(* C20: a write attempt for a block whose spare[5] is 0xFF makes its calls *)
(* in this order, each only after the one before it succeeded: the command *)
(* frame WriteBlockAndSpare (0x10) with the block index; a ready wait; the *)
(* chunked send of the block body as it was given; a ready wait; a         *)
(* piecemeal send of SPARE_SIZE bytes, the first 3 those of the spare and  *)
(* every other one 0xFF; the receive of a reply of at most 8 bytes.  A     *)
(* reply with a negative return code fails the attempt: the operation      *)
(* either starts the next attempt or has returned an error.                *)
C20_WriteStages ==
    op.name = "WriteSingleBlock" /\ op.was_init /\ op.spare[6] = 255 =>
        /\ \A i \in 2 .. Len(clog) : clog[i - 1].out = "ok"
        /\ Len(clog) >= 1 =>
              /\ clog[1].fn = "send_command"
              /\ clog[1].command = 16
              /\ clog[1].arg = op.num
        /\ Len(clog) >= 2 => clog[2].fn = "wait_ready"
        /\ Len(clog) >= 3 =>
              /\ clog[3].fn = "send_chunked_data"
              /\ clog[3].data = op.data
        /\ Len(clog) >= 4 => clog[4].fn = "wait_ready"
        /\ Len(clog) >= 5 =>
              /\ clog[5].fn = "send_piecemeal_data"
              /\ Len(clog[5].data) = SPARE_SIZE
              /\ \A i \in 1 .. 3 : clog[5].data[i] = op.spare[i]
              /\ \A i \in 4 .. SPARE_SIZE : clog[5].data[i] = 255
        /\ Len(clog) >= 6 =>
              /\ Len(clog) = 6
              /\ clog[6].fn = "receive_reply"
              /\ clog[6].arg = 8
              /\ Len(clog[6].data) <= 8
        /\ NegativeAck =>
              /\ clog[6].out = "fail"
              /\ ~IsOk(result)
              /\ \/ pc = "request_block_write" /\ attempt > 1
                 \/ pc \in {"idle", "dropped"} /\ result = ErrC("WriteBlock", op.num)

\* C20: the first attempt went through its six calls, the spare was sent
\* masked, and the acknowledgment carried a negative return code
C20_Witness ==
    /\ op.name = "WriteSingleBlock"
    /\ op.was_init
    /\ op.spare = <<1, 2, 3, 154, 0, 255>>
    /\ NegativeAck
    /\ clog[5].data = <<1, 2, 3, 255, 255, 255>>
    /\ pc = "request_block_write"
    /\ attempt = 2

(* C5: WriteSingleBlock with spare byte 5 other than 0xFF returns success  *)
(* and makes no bulk transfer, whatever the block index and content; with  *)
(* spare byte 5 equal to 0xFF the first thing it does is send the          *)
(* WriteBlockAndSpare command with the block index.                        *)
C5_BadBlockSkipped ==
    op.name = "WriteSingleBlock" /\ op.was_init =>
        /\ op.spare[6] # 255 =>
              /\ pc \in {"idle", "dropped"}
              /\ result = Ok(<<>>)
              /\ clog = <<>>
              /\ dev.mode = "store" =>
                    <<dev.nand[op.num].block, dev.nand[op.num].spare>> = op.before
        /\ op.spare[6] = 255 =>
              /\ clog = <<>> => pc = "request_block_write" /\ result = NoResult
              /\ clog # <<>> =>
                    /\ clog[1].fn = "send_command"
                    /\ clog[1].command = Command_WriteBlockAndSpare
                    /\ clog[1].arg = op.num

\* the spare of the scenario with byte 5 = 0x00 was skipped on block 1
C5_Witness ==
    /\ op.name = "WriteSingleBlock"
    /\ op.was_init
    /\ op.spare = <<1, 2, 3, 154, 0, 0>>
    /\ op.num = 1
    /\ pc = "idle"
    /\ result = Ok(<<>>)

\* ReadSingleBlock(n) has returned r.val = <<block, spare>> right after a
\* successful WriteSingleBlock(block, spare, n), on a device that stores
ReadAfterWrite ==
    /\ dev.mode = "store"
    /\ op.name = "ReadSingleBlock"
    /\ prev.name = "WriteSingleBlock"
    /\ prev.num = op.num
    /\ pc = "idle"
    /\ IsOk(result)

(* C6 as stated: a read after a successful write returns the written block *)
(* and the written spare when spare[5] = 0xFF, and what the device held    *)
(* before the write otherwise.                                             *)
C6_WriteThenRead ==
    ReadAfterWrite =>
        result.val = IF prev.spare[6] = 255 THEN <<prev.data, prev.spare>> ELSE prev.before

(* C6 amended: a read after a successful write returns the written block   *)
(* and the first 3 bytes of the written spare followed by 0xFF in every    *)
(* other position when spare[5] = 0xFF, and what the device held before    *)
(* the write otherwise.                                                    *)
C6_WriteThenReadMasked ==
    ReadAfterWrite =>
        result.val = IF prev.spare[6] = 255
                     THEN <<prev.data,
                            <<prev.spare[1], prev.spare[2], prev.spare[3], 255, 255, 255>> >>
                     ELSE prev.before

\* the spare 01 02 03 9A 00 FF was written and read back as 01 02 03 FF FF FF
C6_Witness ==
    /\ ReadAfterWrite
    /\ prev.spare = <<1, 2, 3, 154, 0, 255>>
    /\ result.val[2] = <<1, 2, 3, 255, 255, 255>>

FlagStep ==
    /\ pc' = "dropped" => (is_initialised' => is_initialised)
    /\ pc' # "dropped" /\ op'.name \notin {"Init", "Close"} =>
          is_initialised' = is_initialised
    /\ pc' # "dropped" /\ op'.name = "Init" =>
          /\ is_initialised' # is_initialised =>
                is_initialised' /\ pc' = "idle" /\ IsOk(result')
          /\ pc' = "idle" /\ IsOk(result') => is_initialised'
          /\ pc' \in {"idle", "panicked"} /\ ~IsOk(result') =>
                /\ is_initialised' = is_initialised
                /\ is_initialised' = op'.was_init
    /\ pc' # "dropped" /\ op'.name = "Close" =>
          /\ is_initialised' # is_initialised =>
                ~is_initialised' /\ pc' = "idle" /\ IsOk(result')
          /\ IsOk(result') => ~is_initialised'
          /\ ~IsOk(result') => is_initialised' = is_initialised

(* C22: the initialised flag changes in two ways only.  A step of Init     *)
(* changes it only by setting it, as Init returns success; a step of Close *)
(* changes it only by clearing it, as Close returns success; the discard   *)
(* of the connection never sets it.  Every step of any other public        *)
(* operation leaves it as it was, whether the operation succeeds, fails or *)
(* is refused.  An Init that fails or panics leaves the flag as it was     *)
(* when Init was called, also when the connection was Initialised then.    *)
C22_FlagFrame == [][FlagStep]_vars

\* C22: Init was called on an Initialised connection and failed; the
\* connection is still Initialised
C22_Witness ==
    /\ op.name = "Init"
    /\ op.was_init
    /\ pc = "idle"
    /\ IsErr(result)
    /\ is_initialised

\* the i-th call of a read attempt of block n: <<function of the command
\* layer, call it makes, opcode, argument or bound>>
ReadTrace(i, n) ==
    IF i = 1 THEN <<"request_block_read", "send_command", Command_ReadBlockAndSpare, n>>
    ELSE IF i = 2 THEN <<"request_block_read", "receive_reply", 0, 8>>
    ELSE IF i <= 2 + BLOCK_SIZE \div BLOCK_CHUNK_SIZE
    THEN <<"get_block", "receive_reply", 0, BLOCK_CHUNK_SIZE>>
    ELSE <<"get_spare", "receive_reply", 0, SPARE_SIZE>>

ReadTraceLen == 3 + BLOCK_SIZE \div BLOCK_CHUNK_SIZE

\* the bodies received by calls lo .. hi of the attempt, concatenated
RECURSIVE Bodies_of(_, _)
Bodies_of(lo, hi) ==
    IF lo > hi THEN <<>> ELSE Bodies_of(lo, hi - 1) \o clog[hi].data

(* C11: a read attempt of block n makes its calls in the order command     *)
(* frame ReadBlockAndSpare(n), status reply, BLOCK_SIZE / BLOCK_CHUNK_SIZE *)
(* receives bounded by BLOCK_CHUNK_SIZE, one receive bounded by            *)
(* SPARE_SIZE, and nothing else; the attempt that meets no failure makes   *)
(* all of them and returns the chunk bodies concatenated in arrival order  *)
(* as the block and the last body as the spare.                            *)
C11_ReadAttempt ==
    op.name = "ReadSingleBlock" /\ op.was_init =>
        /\ Len(clog) <= ReadTraceLen
        /\ \A i \in 1 .. Len(clog) :
              <<clog[i].by, clog[i].fn, clog[i].command, clog[i].arg>> = ReadTrace(i, op.num)
        /\ OnlyLastFailed
        /\ IsOk(result) <=> (pc \in {"idle", "dropped"} /\ Len(clog) = ReadTraceLen /\ AllOk)
        /\ IsOk(result) =>
              /\ result.val[1] = Bodies_of(3, ReadTraceLen - 1)
              /\ result.val[2] = clog[ReadTraceLen].data

\* block 1 was read from a storing device after an attempt that failed
C11_Witness ==
    /\ op.name = "ReadSingleBlock"
    /\ op.was_init
    /\ op.num = 1
    /\ dev.mode = "store"
    /\ pc = "idle"
    /\ IsOk(result)
    /\ attempt = 2
    /\ result.val = <<dev.nand[1].block, dev.nand[1].spare>>

(* C12: every successful ReadSingleBlock returns a block of exactly        *)
(* BLOCK_SIZE bytes and a spare of exactly SPARE_SIZE bytes, whatever body *)
(* lengths the device declares.                                            *)
C12_ReadSizes ==
    op.name = "ReadSingleBlock" /\ op.was_init /\ IsOk(result) =>
        /\ Len(result.val[1]) = BLOCK_SIZE
        /\ Len(result.val[2]) = SPARE_SIZE

\* the command-layer functions outside the two retry loops
SingleShot ==
    {"set_seqno", "get_num_blocks", "init_fs", "set_led", "set_time", "get_bbid",
     "send_filename", "send_params_and_receive_reply"}

\* the log holds calls of single-shot functions only
SingleShotLog == clog # <<>> /\ \A i \in 1 .. Len(clog) : clog[i].by \in SingleShot

\* entry e is an 8-byte status reply with a negative return code
NegativeStatus(e) ==
    e.fn = "receive_reply" /\ e.err = "" /\ Len(e.data) = 8 /\ e.data[5] >= 128

\* no function sent two command frames; nothing follows a failed call; a
\* call that failed on the link ended the operation with the link's error
NoRetry ==
    /\ \A i, j \in 1 .. Len(clog) :
          i < j /\ clog[i].fn = "send_command" /\ clog[j].fn = "send_command"
              => clog[i].by # clog[j].by
    /\ OnlyLastFailed
    /\ LET last == clog[Len(clog)]
       IN  /\ last.out = "fail" => pc \in {"idle", "dropped"} /\ IsErr(result)
           /\ last.err # "" => last.out = "fail" /\ result = Err(last.err)
           /\ NegativeStatus(last) /\ last.out = "fail" =>
                 result.code = be_i32(SubSeq(last.data, 5, 8))

(* C13 as stated: InitFS, GetNumBlocks, SetSeqNo, SetLED, SetTime, GetBBID *)
(* and file checksum compare send each command frame at most once and      *)
(* return the first error they meet, a negative return code in a status    *)
(* reply included.                                                         *)
C13_FailFast ==
    SingleShotLog =>
        /\ NoRetry
        /\ NegativeStatus(clog[Len(clog)]) => clog[Len(clog)].out = "fail"

(* C13 amended: each of them sends each command frame at most once and     *)
(* returns the first transport or framing error it meets; a negative       *)
(* return code is an error for InitFS, SetTime and GetBBID only: SetSeqNo, *)
(* SetLED and GetNumBlocks do not test it and file checksum compare        *)
(* returns false for it.                                                   *)
C13_FailFastChecked ==
    SingleShotLog =>
        /\ NoRetry
        /\ LET last == clog[Len(clog)]
           IN  NegativeStatus(last) =>
                  IF last.by \in {"init_fs", "set_time", "get_bbid"}
                  THEN last.out = "fail"
                  ELSE /\ last.out = "ok"
                       /\ last.by = "send_params_and_receive_reply" =>
                             pc \in {"idle", "dropped"} /\ result = Ok(<<FALSE>>)
                       /\ last.by = "set_led" => pc \in {"idle", "dropped"} /\ result = Ok(<<>>)

\* GetBBID ended with the device's return code -1 after one command frame
C13_Witness ==
    /\ op.name = "GetBBID"
    /\ pc = "idle"
    /\ result = ErrC("GetBBID", -1)
    /\ Len(clog) = 2

\* the bodies (f = "block") or spares (f = "spare") of blocks 0 .. k - 1 of
\* the storing device, concatenated
RECURSIVE Stored(_, _)
Stored(f, k) ==
    IF k = 0 THEN <<>>
    ELSE Stored(f, k - 1) \o (IF f = "block" THEN dev.nand[k - 1].block
                                             ELSE dev.nand[k - 1].spare)

ReadFunctions == {"request_block_read", "get_block", "get_spare"}

(* C14: DumpNAND queries the block count once, then reads the indices 0,   *)
(* 1, ..., num_blocks - 1 in ascending order, appending each block body    *)
(* and spare body to the two buffers in that order; the first block whose  *)
(* read returns an error ends the dump with that error and no higher index *)
(* is read.                                                                *)
C14_DumpOrder ==
    op.name = "DumpNAND" /\ op.was_init =>
        /\ \A i \in 1 .. Len(dump.reads) : dump.reads[i] = i - 1
        /\ Len(dump.reads) <= dump.num_blocks
        /\ Len(dump.reads) \in {dump.block_num, dump.block_num + 1}
        /\ dump.reads = <<>> =>
              /\ \A i \in 1 .. Len(clog) : clog[i].by = "get_num_blocks"
              /\ Len(SelectSeq(clog, LAMBDA e : e.fn = "send_command")) <= 1
        /\ dump.reads # <<>> /\ pc \notin {"request_block_read", "idle", "dropped"} =>
              \A i \in 1 .. Len(clog) :
                 /\ clog[i].by \in ReadFunctions
                 /\ clog[i].fn = "send_command" => clog[i].arg = Len(dump.reads) - 1
        /\ dev.mode = "store" =>
              /\ dump.nand = Stored("block", dump.block_num)
              /\ dump.spare = Stored("spare", dump.block_num)
        /\ IsOk(result) =>
              /\ dump.block_num = dump.num_blocks
              /\ Len(dump.reads) = dump.num_blocks
              /\ result.val = <<dump.nand, dump.spare>>
        /\ IsErr(result) /\ dump.reads # <<>> =>
              /\ Len(dump.reads) = dump.block_num + 1
              /\ clog[Len(clog)].out = "fail"
              /\ clog[1].arg = dump.block_num
              /\ \/ result = ErrC("ReadBlock", dump.block_num)
                 \/ clog[Len(clog)].by = "request_block_read"

\* a storing device of MaxBlocks blocks was dumped whole
C14_Witness ==
    /\ op.name = "DumpNAND"
    /\ op.was_init
    /\ dev.mode = "store"
    /\ pc = "idle"
    /\ IsOk(result)
    /\ Len(dump.reads) = MaxBlocks
    /\ result.val[1] = Stored("block", MaxBlocks)

\* the positions of '.' in a filename
Dots(filename) == {i \in 1 .. Len(filename) : filename[i] = 46}

\* the filename is a name of at most 8 characters, or such a name, one '.'
\* and an extension of at most 3 characters
Decomposes(filename) ==
    \/ Dots(filename) = {} /\ Len(filename) <= 8
    \/ \E d \in Dots(filename) :
          /\ Dots(filename) = {d}
          /\ d - 1 <= 8
          /\ Len(filename) - d <= 3

(* C15: file checksum compare makes a transfer only for a filename that    *)
(* decomposes into a name of at most 8 characters and an optional          *)
(* extension of at most 3; every other filename is rejected with           *)
(* FileNameTooLong before any bulk transfer.                               *)
C15_FileNames ==
    op.name = "file_checksum_cmp" =>
        /\ clog # <<>> => Decomposes(op.data)
        /\ ~Decomposes(op.data) =>
              /\ pc \in {"idle", "dropped"}
              /\ result = Err("FileNameTooLong")
              /\ clog = <<>>

-----------------------------------------------------------------------------
(* Properties of the framing codec *)

\* the header reads of the receive_reply call, in order
HeaderReads == SelectSeq(xlog, LAMBDA e : e.fn = "receive_data_length")

(* C16: the length header read discards every header equal to the ready    *)
(* signal and reads again; the first other header yields its low 3 bytes   *)
(* as a big-endian length when it is 4 bytes long with top byte 0x1B, and  *)
(* the framing error Io for any other top byte or length; a failed read    *)
(* ends it with the transport's error.                                     *)
C16_LengthHeader ==
    lcall.fn = "receive_reply" =>
        /\ \A i \in 1 .. Len(HeaderReads) - 1 :
              HeaderReads[i].err = "" /\ HeaderReads[i].data = READY_SIGNAL
        /\ lpc = "receive_data_length" =>
              /\ data_length = -1
              /\ \A i \in 1 .. Len(HeaderReads) :
                    HeaderReads[i].err = "" /\ HeaderReads[i].data = READY_SIGNAL
        /\ lpc # "receive_data_length" =>
              LET h == HeaderReads[Len(HeaderReads)]
              IN  /\ h.want = 4
                  /\ h.err = "" => h.data # READY_SIGNAL
                  /\ h.err # "" => data_length = -1 /\ lret = Err(h.err)
                  /\ h.err = "" /\ (Len(h.data) # 4 \/ h.data[1] # 27) =>
                        data_length = -1 /\ lret = Err("Io")
                  /\ h.err = "" /\ Len(h.data) = 4 /\ h.data[1] = 27 =>
                        data_length = h.data[2] * 65536 + h.data[3] * 256 + h.data[4]
                  /\ data_length # -1 => h.err = "" /\ Len(h.data) = 4 /\ h.data[1] = 27

\* two stray ready signals were discarded before the header 1B 00 00 08
C16_Witness ==
    /\ lcall.fn = "receive_reply"
    /\ Len(HeaderReads) = 3
    /\ HeaderReads[2].data = READY_SIGNAL
    /\ HeaderReads[3].data = <<27, 0, 0, 8>>
    /\ data_length = 8

\* the packet reads and the acknowledgments of the receive_reply call
PacketReads == SelectSeq(xlog, LAMBDA e : e.fn = "receive_data")

Acks == SelectSeq(xlog, LAMBDA e : e.fn = "send_ack")

(* C17: in bulk body reception every packet read but the last returned a   *)
(* full 0x80-byte packet, and reading stops at the first shorter one;      *)
(* exactly one acknowledgment byte 0x44 is then sent, after the last       *)
(* packet read and before the buffer is decoded; no acknowledgment is sent *)
(* when a packet read fails, and nothing is decoded when the               *)
(* acknowledgment fails.                                                   *)
C17_AckAfterBody ==
    lcall.fn = "receive_reply" /\ PacketReads # <<>> =>
        LET last == PacketReads[Len(PacketReads)]
        IN  /\ \A i \in 1 .. Len(PacketReads) - 1 :
                  PacketReads[i].err = "" /\ Len(PacketReads[i].data) = 128
            /\ Len(Acks) <= 1
            /\ lpc = "receive_data" =>
                  last.err = "" /\ Len(last.data) = 128 /\ Acks = <<>> /\ lret = NoResult
            /\ lpc = "send_ack" =>
                  last.err = "" /\ Len(last.data) < 128 /\ Acks = <<>> /\ lret = NoResult
            /\ lpc = "done" /\ last.err # "" => Acks = <<>> /\ lret = Err(last.err)
            /\ lpc = "done" /\ last.err = "" =>
                  /\ Len(last.data) < 128
                  /\ Len(Acks) = 1
                  /\ xlog[Len(xlog)] = Acks[1]
                  /\ Acks[1].dir = "send" /\ Acks[1].data = <<68>>
                  /\ Acks[1].err # "" => lret = Err(Acks[1].err)
                  /\ Acks[1].err = "" => lret = decode_piecemeal_data(buf, data_length)

\* a body of two packets, the first one full, was acknowledged and decoded
C17_Witness ==
    /\ lcall.fn = "receive_reply"
    /\ lpc = "done"
    /\ Len(PacketReads) = 2
    /\ Len(PacketReads[1].data) = 128
    /\ Len(Acks) = 1
    /\ IsOk(lret)
    /\ Len(lret.val) = 100

\* the room reserved for the inflated body of L bytes: a tag for every three
\* bytes, the last group padded to three, and one byte more
Reserved(L) == L + (L \div 3) + ((3 - (L % 3)) % 3) + 1

\* the bytes the first k packet reads put into the buffer
RECURSIVE Buffered(_)
Buffered(k) == IF k = 0 THEN 0 ELSE Buffered(k - 1) + Len(PacketReads[k].data)

\* the most packet reads a body of L bytes may take: ceil(capacity / 0x80) + 1
MaxPacketReads(L) == ((Reserved(L) + 127) \div 128) + 1

(* C21: bulk body reception for a declared length L never holds more bytes *)
(* than the capacity L + floor(L/3) + ((3 - L mod 3) mod 3) + 1, never     *)
(* asks in one packet read for more bytes than are left of that capacity   *)
(* nor for more than 0x80, and makes at most ceil(capacity / 0x80) + 1     *)
(* packet reads; while another read is still to come it has made fewer, so *)
(* the loop ends after a bounded number of reads whatever the lengths of   *)
(* the packets delivered.                                                  *)
C21_ReceiveBounded ==
    lcall.fn = "receive_reply" /\ lpc \in {"receive_data", "send_ack", "done"} =>
        /\ PacketReads # <<>> => Len(buf) <= Reserved(data_length)
        /\ \A k \in 1 .. Len(PacketReads) :
              /\ PacketReads[k].want <= 128
              /\ PacketReads[k].want <= Reserved(data_length) - Buffered(k - 1)
              /\ PacketReads[k].want >= 0
              /\ Len(PacketReads[k].data) <= PacketReads[k].want
              /\ Buffered(k) <= Reserved(data_length)
        /\ PacketReads # <<>> => Len(PacketReads) <= MaxPacketReads(data_length)
        /\ lpc = "receive_data" => Len(PacketReads) < MaxPacketReads(data_length)
        /\ lpc = "send_ack" => Buffered(Len(PacketReads)) = Len(buf)

\* C21: a body of 95 bytes, capacity 0x80: the first packet read filled the
\* capacity, the second asked for nothing, and the acknowledgment is next
C21_Witness ==
    /\ lcall.fn = "receive_reply"
    /\ lpc = "send_ack"
    /\ data_length = 95
    /\ Len(PacketReads) = 2
    /\ Len(PacketReads[1].data) = 128
    /\ PacketReads[2].want = 0
    /\ Len(wire) > 0

\* the transfers of xlog that send
SendIndexes == {i \in 1 .. Len(xlog) : xlog[i].dir = "send"}

\* the 8 bytes o ++ a on the wire: two groups of three and one of two, each
\* behind its send tag
Frame8(o, a) ==
    <<PiecemealChunkSend + 3, o[1], o[2], o[3],
      PiecemealChunkSend + 3, o[4], a[1], a[2],
      PiecemealChunkSend + 2, a[3], a[4]>>

(* C19: send_command(opcode, arg) sends nothing until its ready wait has   *)
(* read the ready signal: every transfer before the send is a 4-byte read  *)
(* of is_ready, and the one right before it read READY_SIGNAL.  It then    *)
(* sends, in one bulk transfer, the piecemeal encoding of the big-endian   *)
(* opcode followed by the big-endian argument, and returns what that       *)
(* transfer returned.  When the ready wait fails no transfer sends, and    *)
(* send_command returns the error of the wait.                             *)
C19_SendCommand ==
    lcall.fn = "send_command" =>
        /\ Cardinality(SendIndexes) <= 1
        /\ \A i \in SendIndexes :
              /\ i = Len(xlog)
              /\ i > 1
              /\ \A j \in 1 .. i - 1 :
                    /\ xlog[j].fn = "is_ready"
                    /\ xlog[j].dir = "recv"
                    /\ xlog[j].want = 4
                    /\ xlog[j].err = ""
                    /\ Len(xlog[j].data) = 4
                    /\ (xlog[j].data = READY_SIGNAL) <=> (j = i - 1)
              /\ xlog[i].fn = "send_piecemeal_data"
              /\ xlog[i].data = Frame8(to_be_bytes(lcall.command), to_be_bytes(lcall.arg))
              /\ lpc = "done"
              /\ lret = IF xlog[i].err = "" THEN Ok(<<>>) ELSE Err(xlog[i].err)
        /\ lpc = "send_piecemeal_data" =>
              /\ SendIndexes = {}
              /\ xlog # <<>>
              /\ xlog[Len(xlog)].data = READY_SIGNAL
        /\ (lpc = "done" /\ SendIndexes = {}) =>
              /\ xlog # <<>>
              /\ xlog[Len(xlog)].data # READY_SIGNAL
              /\ lret = IF xlog[Len(xlog)].err = ""
                        THEN Err("Io")
                        ELSE Err(xlog[Len(xlog)].err)

\* C19: send_command sent (16, 258) after a poll that was not the signal
C19_Witness ==
    /\ lcall.fn = "send_command"
    /\ lcall.command = 16
    /\ lcall.arg = 258
    /\ lpc = "done"
    /\ lret = Ok(<<>>)
    /\ Len(xlog) = 3
    /\ xlog[1].data = <<22, 0, 0, 0>>
    /\ xlog[3].data = <<67, 0, 0, 0, 67, 16, 0, 0, 66, 1, 2>>

\* a poll wait_ready discards: 4 bytes, read without error, not the signal
Discarded(e) == e.err = "" /\ Len(e.data) = 4 /\ e.data # READY_SIGNAL

(* C8: receive_reply(max) is an error whenever the declared body length is *)
(* 0 or greater than max, and then no body packet was read and no          *)
(* acknowledgment sent; for a declared length L in 1..max the body is      *)
(* read, and a successful reply has exactly L bytes.                       *)
C8_ReceiveReply ==
    lcall.fn = "receive_reply" /\ data_length # -1 =>
        /\ length_declared_bad =>
              /\ lpc = "done"
              /\ IsErr(lret)
              /\ \A i \in 1 .. Len(xlog) : xlog[i].fn = "receive_data_length"
        /\ lpc = "done" /\ ~length_declared_bad =>
              /\ \E i \in 1 .. Len(xlog) : xlog[i].fn = "receive_data"
              /\ IsOk(lret) => Len(lret.val) = data_length
        /\ lpc = "done" /\ IsOk(lret) => data_length \in 1 .. lcall.expected_len

\* an over-length header, read after a stray ready signal, was rejected
C8_Witness ==
    /\ lcall.fn = "receive_reply"
    /\ lpc = "done"
    /\ data_length > lcall.expected_len
    /\ lret = Err("InvalidParam")
    /\ Len(xlog) = 2

(* C9: wait_ready returns success exactly when a poll reads 15 00 00 00;   *)
(* every poll before the last one read 4 other bytes without error and was *)
(* discarded; a poll that reads a number of bytes other than 4 ends it     *)
(* with the framing error Io, a failed poll with the transport's error.    *)
C9_WaitReady ==
    lcall.fn = "wait_ready" =>
        /\ \A i \in 1 .. Len(xlog) - 1 : Discarded(xlog[i])
        /\ lpc = "is_ready" =>
              /\ lret = NoResult
              /\ \A i \in 1 .. Len(xlog) : Discarded(xlog[i])
        /\ lpc = "done" =>
              LET last == xlog[Len(xlog)]
              IN  /\ IsOk(lret) <=> (last.err = "" /\ last.data = READY_SIGNAL)
                  /\ last.err = "" /\ Len(last.data) # 4 => lret = Err("Io")
                  /\ last.err # "" => lret = Err(last.err)
                  /\ ~Discarded(last)

\* two polls were discarded, one of them 15 00 00 01, before the signal came
C9_Witness ==
    /\ lcall.fn = "wait_ready"
    /\ lpc = "done"
    /\ IsOk(lret)
    /\ Len(xlog) = 3
    /\ xlog[2].data = <<Ready, 0, 0, 1>>

=============================================================================
